---- MODULE Spec2Model ----
(***************************************************************************)
(* shoosh: a PulseAudio loopback that limits loudness.                     *)
(*                                                                         *)
(*   src/src/ringbuffer.rs   RingBuffer<T>: new, iter, append              *)
(*   src/src/main.rs         run: connection handshake, stream handshake,  *)
(*                           pump loop with the per-chunk gain step        *)
(*                                                                         *)
(* Three specifications share the definitions below:                       *)
(*   SpecRing  a RingBuffer of any small capacity under arbitrary appends  *)
(*   SpecGain  the gain step of run (lines 173-193) on f32 samples         *)
(*   Spec      run's control flow against a nondeterministic audio server  *)
(***************************************************************************)
EXTENDS Integers, Sequences, FiniteSets, TLC

VARIABLES
    \* ---- SpecRing: one RingBuffer<i32> and the history of its appends
    ring,          \* [buffer, size, index]: the fields of RingBuffer
    ring_panicked, \* a slice range of append or iter was out of bounds
    appended,      \* ghost: concatenation of every slice ever appended
    nappends,      \* ghost: number of append calls so far
    last_len,      \* ghost: length of the slice of the last append call
    \* ---- run: the gain state (lines 59, 158)
    volume_cap,        \* f32
    volume_buffer,     \* RingBuffer<f32> of size BUFFER_SIZE
    \* ---- SpecGain: the locals of the last chunk (lines 173-192)
    chunk,             \* the chunk (samples, f32)
    chunk_max,         \* line 174
    weighted_average,  \* line 179
    volume_multiplier, \* line 185
    out_chunk,         \* line 192: the chunk times volume_multiplier
    gsteps,            \* ghost: number of gain steps after the history
    warm,              \* the history still to come: chunk c, n more times
    \* ---- Spec: run's position and the audio server it talks to
    pc,            \* where run is
    ctx_state,     \* context.get_state()
    pb_state,      \* playback_stream.get_state()
    rec_state,     \* recording_stream.get_state()
    capture_q,     \* server side: units of the capture stream not yet dropped
    next_id,       \* server side: number of the next unit to arrive
    peeked,        \* result of the last recording_stream.peek()
    played,        \* server side: the byte buffers written to playback
    iter_ops,      \* ghost: the calls of the last loop body, in order
    chunk_log,     \* ghost: the chunks of the last Data buffer processed
    peeked_ids,    \* ghost: ids of the Data units peeked, in order
    written_ids,   \* ghost: ids of the Data units written, in order
    discarded_ids, \* ghost: id and kind of the units discarded, in order
    iter_failed,   \* ghost: an iterate has returned Quit or Err
    acted_after_fail,\* ghost: state checks, peeks, writes, discards since then
    pump_entry,    \* ghost: <<playback, capture>> states when line 154 broke
    partial_seen   \* ghost: handshake passes that saw one stream Ready only

ringVars == <<ring, ring_panicked, appended, nappends, last_len>>

capVars == <<volume_cap, volume_buffer>>

stepVars == <<chunk, chunk_max, weighted_average, volume_multiplier,
              out_chunk, gsteps, warm>>

sessVars == <<pc, ctx_state, pb_state, rec_state, capture_q,
              next_id, peeked, played, iter_ops, chunk_log, peeked_ids,
              written_ids, discarded_ids, iter_failed, acted_after_fail,
              pump_entry, partial_seen>>

vars == <<ringVars, capVars, stepVars, sessVars>>

\* ------------------------------------------------------------------------
\* Bounds of the model
\* ------------------------------------------------------------------------
MaxSize == 3       \* SpecRing: capacities 1..MaxSize
MaxSlice == 5      \* SpecRing: appended slices have 0..MaxSlice elements
MaxAppends == 4    \* SpecRing: number of append calls in a run
MaxGainSteps == 2  \* SpecGain: chunks processed after the drawn history
MaxUnits == 2      \* Spec: number of units the capture stream delivers

\* ------------------------------------------------------------------------
\* Helpers: Rust slices are 0-based and half-open
\* ------------------------------------------------------------------------
Min(a, b) == IF a <= b THEN a ELSE b

Max(a, b) == IF a >= b THEN a ELSE b

\* s[a..b]
Slice(s, a, b) == SubSeq(s, a + 1, b)

\* s[a..a+len(t)].clone_from_slice(t), the range being in bounds
CloneFromSlice(s, a, t) ==
    [i \in 1..Len(s) |-> IF i > a /\ i <= a + Len(t) THEN t[i - a] ELSE s[i]]

\* ------------------------------------------------------------------------
\* f32: IEEE 754 binary32, held as its three bit fields
\*   s sign (0, 1), x biased exponent (0..255), f fraction (0..2^23 - 1)
\*   x = 0: (-1)^s * f * 2^-149;  x in 1..254: (-1)^s * (2^23 + f) * 2^(x-150)
\*   x = 255: infinity when f = 0, NaN otherwise
\* Arithmetic is exact, then rounded to nearest, ties to even, as the
\* hardware does. Every intermediate stays below 2^31.
\* ------------------------------------------------------------------------
F32(s, x, f) == [s |-> s, x |-> x, f |-> f]

TwoP23 == 8388608

TwoP24 == 16777216

IsNaN(a) == a.x = 255 /\ a.f # 0

IsInf(a) == a.x = 255 /\ a.f = 0

IsZero(a) == a.x = 0 /\ a.f = 0

F32NaN == F32(0, 255, 4194304)

F32Inf(s) == F32(s, 255, 0)

F32Zero(s) == F32(s, 0, 0)

\* mantissa and exponent of a finite value: m * 2^e
Man(a) == IF a.x = 0 THEN a.f ELSE TwoP23 + a.f

Exp(a) == IF a.x = 0 THEN -149 ELSE a.x - 150

\* number of bits of m, 0 <= m < 2^31
BitLen(m) ==
    IF m = 0 THEN 0
    ELSE IF m >= TwoP23
         THEN CHOOSE k \in 24..31 : m < 2^k /\ m >= 2^(k - 1)
         ELSE CHOOSE k \in 1..23 : m < 2^k /\ m >= 2^(k - 1)

\* The f32 nearest to (m + t) * 2^e, where 0 <= t < 1 and `sticky` says
\* t > 0; a caller passing sticky gives m at least 25 bits.
RoundPack(s, m, e, sticky) ==
    IF m = 0 THEN F32Zero(s)
    ELSE
    LET len == BitLen(m)
        sh == Max(len - 24, -149 - e)      \* low bits of m to drop
    IN  IF sh > 30 THEN F32Zero(s)          \* below half the least subnormal
        ELSE IF sh <= 0
        THEN \* exact: shift left as far as the exponent allows
             LET k == Min(24 - len, e + 149)
                 mm == m * 2^k
                 ee == e - k
             IN  IF mm >= TwoP23
                 THEN IF ee + 150 >= 255 THEN F32Inf(s)
                      ELSE F32(s, ee + 150, mm - TwoP23)
                 ELSE F32(s, 0, mm)
        ELSE LET q == m \div 2^sh
                 r == m % 2^sh
                 half == 2^(sh - 1)
                 up == \/ r > half
                       \/ r = half /\ (sticky \/ q % 2 = 1)
                 mm == IF up THEN q + 1 ELSE q
                 m2 == IF mm = TwoP24 THEN TwoP23 ELSE mm
                 ee == IF mm = TwoP24 THEN e + sh + 1 ELSE e + sh
             IN  IF m2 >= TwoP23
                 THEN IF ee + 150 >= 255 THEN F32Inf(s)
                      ELSE F32(s, ee + 150, m2 - TwoP23)
                 ELSE F32(s, 0, m2)

\* a nonzero finite mantissa shifted left to 24 bits: <<m, e>>
Norm(a) ==
    IF a.x > 0 THEN <<TwoP23 + a.f, a.x - 150>>
    ELSE LET k == 24 - BitLen(a.f)
         IN  <<a.f * 2^k, -149 - k>>

\* f32::abs
F32Abs(a) == F32(0, a.x, a.f)

\* a < b on non-NaN values
F32Lt(a, b) ==
    IF IsZero(a) /\ IsZero(b) THEN FALSE
    ELSE IF a.s # b.s THEN a.s = 1
    ELSE IF a.s = 0
         THEN a.x < b.x \/ (a.x = b.x /\ a.f < b.f)
         ELSE a.x > b.x \/ (a.x = b.x /\ a.f > b.f)

\* a <= b on non-NaN values
F32Le(a, b) == ~F32Lt(b, a)

\* f32::max: a NaN argument yields the other argument
F32Max(a, b) ==
    IF IsNaN(a) THEN b
    ELSE IF IsNaN(b) THEN a
    ELSE IF F32Lt(a, b) THEN b ELSE a

\* usize as f32, for values below 2^24 (exact)
F32FromUsize(n) == RoundPack(0, n, 0, FALSE)

\* a * b
F32Mul(a, b) ==
    LET s == (a.s + b.s) % 2
    IN  IF IsNaN(a) \/ IsNaN(b) THEN F32NaN
        ELSE IF IsInf(a) \/ IsInf(b)
             THEN IF IsZero(a) \/ IsZero(b) THEN F32NaN ELSE F32Inf(s)
        ELSE IF IsZero(a) \/ IsZero(b) THEN F32Zero(s)
        ELSE
        LET na == Norm(a)
            nb == Norm(b)
            ah == na[1] \div 4096
            al == na[1] % 4096
            bh == nb[1] \div 4096
            bl == nb[1] % 4096
            mid == ah * bl + al * bh
            low == (mid % 4096) * 4096 + al * bl
            \* product = hi * 2^24 + lo, 2^22 <= hi < 2^24
            hi == ah * bh + mid \div 4096 + low \div TwoP24
            lo == low % TwoP24
        IN  RoundPack(s, hi * 4 + lo \div 4194304,
                      na[2] + nb[2] + 22, lo % 4194304 # 0)

\* a / b
F32Div(a, b) ==
    LET s == (a.s + b.s) % 2
    IN  IF IsNaN(a) \/ IsNaN(b) THEN F32NaN
        ELSE IF IsInf(a) THEN (IF IsInf(b) THEN F32NaN ELSE F32Inf(s))
        ELSE IF IsInf(b) THEN F32Zero(s)
        ELSE IF IsZero(b) THEN (IF IsZero(a) THEN F32NaN ELSE F32Inf(s))
        ELSE IF IsZero(a) THEN F32Zero(s)
        ELSE
        LET na == Norm(a)
            nb == Norm(b)
            d == nb[1]
            \* long division, 7 quotient bits a step: q = na[1] * 2^28 \div d
            q0 == na[1] \div d
            r0 == na[1] % d
            q1 == q0 * 128 + (r0 * 128) \div d
            r1 == (r0 * 128) % d
            q2 == q1 * 128 + (r1 * 128) \div d
            r2 == (r1 * 128) % d
            q3 == q2 * 128 + (r2 * 128) \div d
            r3 == (r2 * 128) % d
            q4 == q3 * 128 + (r3 * 128) \div d
            r4 == (r3 * 128) % d
        IN  RoundPack(s, q4, na[2] - nb[2] - 28, r4 # 0)

\* a + b for a, b of sign 0 (or NaN): the sums of run add peaks times weights
F32Add(a, b) ==
    IF IsNaN(a) \/ IsNaN(b) THEN F32NaN
    ELSE IF IsInf(a) \/ IsInf(b) THEN F32Inf(0)
    ELSE
    LET swap == Exp(a) < Exp(b)
        hiv == IF swap THEN b ELSE a
        lov == IF swap THEN a ELSE b
        d == Exp(hiv) - Exp(lov)
    IN  IF d <= 3
        THEN RoundPack(0, Man(hiv) * 2^d + Man(lov), Exp(lov), FALSE)
        ELSE LET sh == d - 3
                 kept == IF sh > 30 THEN 0 ELSE Man(lov) \div 2^sh
                 lost == IF sh > 30 THEN Man(lov) ELSE Man(lov) % 2^sh
             IN  RoundPack(0, Man(hiv) * 8 + kept, Exp(hiv) - 3, lost # 0)

\* f32::from_le_bytes
F32FromLeBytes(b) ==
    F32(b[4] \div 128,
        (b[4] % 128) * 2 + b[3] \div 128,
        (b[3] % 128) * 65536 + b[2] * 256 + b[1])

\* f32::to_le_bytes
F32ToLeBytes(a) ==
    <<a.f % 256,
      (a.f \div 256) % 256,
      (a.x % 2) * 128 + a.f \div 65536,
      a.s * 128 + a.x \div 2>>

\* ------------------------------------------------------------------------
\* RingBuffer (src/src/ringbuffer.rs)
\* ------------------------------------------------------------------------
\* RingBuffer::new: an empty vector (with_capacity reserves, it holds nothing)
RingNew(size) == [buffer |-> <<>>, size |-> size, index |-> 0]

\* iter: buffer[index..] chained with buffer[..index]
RingIter(rb) ==
    Slice(rb.buffer, rb.index, Len(rb.buffer)) \o Slice(rb.buffer, 0, rb.index)

\* iter panics when index is past the end of the vector
RingIterPanics(rb) == rb.index > Len(rb.buffer)

\* mutant: the first `size` elements are inserted instead of the last
AppendKept_First(rb, elements) == Slice(elements, 0, Min(Len(elements), rb.size))

\* line 32-33: only the last `size` elements are inserted
AppendKept(rb, elements) ==
    LET count == IF Len(elements) >= rb.size THEN Len(elements) - rb.size ELSE 0
    IN  Slice(elements, count, Len(elements))

\* mutant: no split, every inserted element goes to the tail
AppendSplit_NoWrap(rb, els) == Len(els)

\* line 35-36: split_at((size - index).min(len))
AppendSplit(rb, els) == Min(rb.size - rb.index, Len(els))

\* line 37-47: the tail goes after the vector's end while it is not full,
\* otherwise in place at index
AppendTail(rb, tail) ==
    IF Len(rb.buffer) < rb.size
    THEN rb.buffer \o tail
    ELSE CloneFromSlice(rb.buffer, rb.index, tail)

\* line 45 and 49: the slice ranges append indexes with
AppendPanics(rb, elements) ==
    LET els == AppendKept(rb, elements)
        mid == AppendSplit(rb, els)
        tail == Slice(els, 0, mid)
        head == Slice(els, mid, Len(els))
        buf1 == AppendTail(rb, tail)
    IN  \/ rb.size = 0                                  \* line 51: % 0
        \/ rb.index > rb.size                           \* line 36: usize underflow
        \/ /\ Len(rb.buffer) >= rb.size
           /\ rb.index + Len(tail) > Len(rb.buffer)     \* line 45
        \/ Len(head) > Len(buf1)                        \* line 49

\* mutant: index is not advanced, so that new elements overwrite one another
\* and old ones are never evicted
RingAppend_StuckIndex(rb, elements) ==
    LET els == AppendKept(rb, elements)
        mid == AppendSplit(rb, els)
        buf1 == AppendTail(rb, Slice(els, 0, mid))
        buf2 == CloneFromSlice(buf1, 0, Slice(els, mid, Len(els)))
    IN  [buffer |-> buf2,
         size |-> rb.size,
         index |-> IF Len(rb.buffer) < rb.size
                   THEN (rb.index + Len(els)) % rb.size
                   ELSE rb.index]

\* append, lines 30-52
RingAppend(rb, elements) ==
    LET els == AppendKept(rb, elements)
        mid == AppendSplit(rb, els)
        tail == Slice(els, 0, mid)
        head == Slice(els, mid, Len(els))
        buf1 == AppendTail(rb, tail)
        buf2 == CloneFromSlice(buf1, 0, head)
    IN  [buffer |-> buf2,
         size |-> rb.size,
         index |-> (rb.index + Len(els)) % rb.size]

\* ------------------------------------------------------------------------
\* The gain step of run (src/src/main.rs, lines 157-193)
\* ------------------------------------------------------------------------
BUFFER_SIZE == 128

\* line 172: float_data.chunks(64)
CHUNK_LEN == 64

\* line 174-176: chunk.iter().fold(0.0, |a, &b| f32::max(a.abs(), b.abs()))
\* over c[lo..hi], left to right. The range is halved, and the left half
\* evaluated before the right one is entered, only to keep the evaluation
\* shallow: the order of the fold is unchanged.
RECURSIVE FoldMaxAbs(_, _, _, _)
FoldMaxAbs(c, lo, hi, a) ==
    IF lo > hi THEN a
    ELSE IF lo = hi THEN F32Max(F32Abs(a), F32Abs(c[lo]))
    ELSE LET mid == (lo + hi) \div 2
             left == FoldMaxAbs(c, lo, mid, a)
         IN  IF left.x >= 0 THEN FoldMaxAbs(c, mid + 1, hi, left) ELSE left

ChunkMax(c) == FoldMaxAbs(c, 1, Len(c), F32Zero(0))

\* line 182: i as f32 / BUFFER_SIZE as f32, for i in 0..BUFFER_SIZE
\* (a table, entry i + 1 for position i)
WeightTable ==
    [k \in 1..BUFFER_SIZE |->
        F32Div(F32FromUsize(k - 1), F32FromUsize(BUFFER_SIZE))] \o <<>>

\* mutant: the weight of position i taken as (i + 1) / BUFFER_SIZE
Weight_OffByOne(i) == F32Div(F32FromUsize(i + 1), F32FromUsize(BUFFER_SIZE))

Weight(i) == WeightTable[i + 1]

\* line 183: BUFFER_SIZE as f32 * 0.5
Normalizer == F32Mul(F32FromUsize(BUFFER_SIZE), F32(0, 126, 0))

\* line 179-183: .enumerate().map(|(i, v)| v * weight(i)).sum::<f32>():
\* the terms of positions lo-1..hi-1 added to acc in iteration order (the
\* range is halved as in FoldMaxAbs)
RECURSIVE SumWeighted(_, _, _, _)
SumWeighted(vals, lo, hi, acc) ==
    IF lo > hi THEN acc
    ELSE IF lo = hi THEN F32Add(acc, F32Mul(vals[lo], Weight(lo - 1)))
    ELSE LET mid == (lo + hi) \div 2
             left == SumWeighted(vals, lo, mid, acc)
         IN  IF left.x >= 0 THEN SumWeighted(vals, mid + 1, hi, left) ELSE left

WeightedAverage(rb) ==
    LET vals == RingIter(rb)
    IN  F32Div(SumWeighted(vals, 1, Len(vals), F32Zero(0)), Normalizer)

\* line 186: weighted_average.max(volume_cap).max(chunk_max)
Denominator(cap, wavg, cmax) == F32Max(F32Max(wavg, cap), cmax)

\* line 185-186
VolumeMultiplier(cap, wavg, cmax) == F32Div(cap, Denominator(cap, wavg, cmax))

\* line 192: chunk.into_iter().map(move |v| v * volume_multiplier)
ScaleChunk(c, mul) == [k \in 1..Len(c) |-> F32Mul(c[k], mul)]

\* mutant: the gain is computed from the window before the chunk's peak is
\* appended
GainStep_AppendAfter(rb, cap, c) ==
    LET cmax == ChunkMax(c)
        wavg == WeightedAverage(rb)
        mul == VolumeMultiplier(cap, wavg, cmax)
    IN  [volume_buffer |-> RingAppend(rb, <<cmax>>),
         chunk_max |-> cmax,
         weighted_average |-> wavg,
         volume_multiplier |-> mul,
         out |-> ScaleChunk(c, mul)]

\* line 173-193: one chunk through the closure of audio_data
GainStep(rb, cap, c) ==
    LET cmax == ChunkMax(c)
        rb2 == RingAppend(rb, <<cmax>>)
        wavg == WeightedAverage(rb2)
        mul == VolumeMultiplier(cap, wavg, cmax)
    IN  [volume_buffer |-> rb2,
         chunk_max |-> cmax,
         weighted_average |-> wavg,
         volume_multiplier |-> mul,
         out |-> ScaleChunk(c, mul)]

\* ------------------------------------------------------------------------
\* SpecGain: the gain step applied to chunks drawn from a small set of
\* samples, starting from the window left by a drawn history of chunks
\* ------------------------------------------------------------------------
\* samples as the little-endian bytes the capture stream delivers
B_0 == <<0, 0, 0, 0>>               \* 0.0

B_0_05 == <<205, 204, 76, 61>>      \* 0.05

B_0_06 == <<143, 194, 117, 61>>     \* 0.06

B_0_7 == <<51, 51, 51, 63>>         \* 0.7

B_m0_9 == <<102, 102, 102, 191>>    \* -0.9

B_2 == <<0, 0, 0, 64>>              \* 2.0

B_3e38 == <<230, 177, 97, 127>>     \* 3e38

S(b) == F32FromLeBytes(b)

\* line 42: opt_get::<f32>("v") parses the option to the nearest f32
ParseF32(str) ==
    CASE str = "0.06" -> F32(0, 122, 7717519)
      [] str = "0.5" -> F32(0, 126, 0)
      [] str = "1e-45" -> F32(0, 0, 1)
      [] str = "0" -> F32Zero(0)
      [] str = "inf" -> F32Inf(0)
      [] str = "nan" -> F32NaN

GainCaps == {ParseF32(a) : a \in {"0.06", "0.5", "1e-45"}}

GainChunks ==
    {<<S(B_0)>>, <<S(B_0_05)>>, <<S(B_0_06)>>, <<S(B_0_7)>>, <<S(B_2)>>,
     <<S(B_3e38)>>, <<S(B_0_7), S(B_m0_9)>>, <<S(B_0_05), S(B_0)>>}

\* a history: one chunk repeated, which fills (and wraps) the window
WarmChunks == {<<S(B_0_06)>>, <<S(B_0_7)>>}

WarmLens == {0, BUFFER_SIZE - 1, BUFFER_SIZE + 2}

NoF32 == F32(0, 0, 0)

StepIdle ==
    /\ chunk = <<>>
    /\ chunk_max = NoF32
    /\ weighted_average = NoF32
    /\ volume_multiplier = NoF32
    /\ out_chunk = <<>>
    /\ gsteps = 0
    /\ warm = [c |-> <<>>, n |-> 0]

CapIdle ==
    /\ volume_cap = NoF32
    /\ volume_buffer = RingNew(BUFFER_SIZE)

RingIdle ==
    /\ ring = RingNew(1)
    /\ ring_panicked = FALSE
    /\ appended = <<>>
    /\ nappends = 0
    /\ last_len = 0

NoPeek == [kind |-> "None", id |-> 0, data |-> <<>>]

SessIdle ==
    /\ pc = "idle"
    /\ ctx_state = "Unconnected"
    /\ pb_state = "None"
    /\ rec_state = "None"
    /\ capture_q = <<>>
    /\ next_id = 1
    /\ peeked = NoPeek
    /\ played = <<>>
    /\ iter_ops = <<>>
    /\ chunk_log = <<>>
    /\ peeked_ids = <<>>
    /\ written_ids = <<>>
    /\ discarded_ids = <<>>
    /\ iter_failed = FALSE
    /\ acted_after_fail = FALSE
    /\ pump_entry = <<>>
    /\ partial_seen = {}

GainInit ==
    /\ volume_cap \in GainCaps
    /\ volume_buffer = RingNew(BUFFER_SIZE)
    /\ chunk = <<>>
    /\ chunk_max = NoF32
    /\ weighted_average = NoF32
    /\ volume_multiplier = NoF32
    /\ out_chunk = <<>>
    /\ gsteps = 0
    /\ warm \in {[c |-> c, n |-> n] : c \in WarmChunks, n \in WarmLens}
    /\ RingIdle
    /\ SessIdle

GainApply(c) ==
    \E r \in {GainStep(volume_buffer, volume_cap, c)} :
        /\ chunk' = c
        /\ volume_buffer' = r.volume_buffer
        /\ chunk_max' = r.chunk_max
        /\ weighted_average' = r.weighted_average
        /\ volume_multiplier' = r.volume_multiplier
        /\ out_chunk' = r.out

\* the next chunk of the history
GainWarm ==
    /\ warm.n > 0
    /\ GainApply(warm.c)
    /\ warm' = [warm EXCEPT !.n = warm.n - 1]
    /\ UNCHANGED <<volume_cap, gsteps, ringVars, sessVars>>

\* any chunk
GainChunk ==
    /\ warm.n = 0
    /\ gsteps < MaxGainSteps
    /\ \E c \in GainChunks : GainApply(c)
    /\ gsteps' = gsteps + 1
    /\ UNCHANGED <<volume_cap, warm, ringVars, sessVars>>

GainNext == GainWarm \/ GainChunk

SpecGain == GainInit /\ [][GainNext]_vars

\* ------------------------------------------------------------------------
\* SpecMain: main (src/src/main.rs, lines 17-57) on a command line, then
\* the gain steps of the pipeline it starts
\* ------------------------------------------------------------------------
\* the strings f32::from_str accepts, among those the command lines use
F32Strings == {"0.06", "0.5", "1e-45", "0", "inf", "nan"}

\* args[1..]
CommandLines ==
    {<<>>, <<"-h">>, <<"-x">>, <<"-v">>, <<"-v", "abc">>, <<"-v", "0.06", "-h">>}
    \cup {<<"-v", a>> : a \in F32Strings}

\* line 20-29: opts.parse(&args[1..]) with the options -h (flag) and
\* -v VOLUME: a -v takes the next argument, or fails when there is none;
\* an option that is not declared fails
RECURSIVE OptsParse(_, _, _)
OptsParse(args, i, m) ==
    IF i > Len(args) THEN m
    ELSE IF args[i] = "-h" THEN OptsParse(args, i + 1, [m EXCEPT !.h = TRUE])
    ELSE IF args[i] = "-v"
         THEN IF i = Len(args) THEN [m EXCEPT !.ok = FALSE]
              ELSE OptsParse(args, i + 2, [m EXCEPT !.v = <<args[i + 1]>>])
    ELSE [m EXCEPT !.ok = FALSE]

\* line 29-56: what main does with the command line: it returns, or calls
\* run with the parsed value. The value is not compared with anything.
MainOutcome(args) ==
    LET m == OptsParse(args, 1, [ok |-> TRUE, h |-> FALSE, v |-> <<>>])
    IN  IF ~m.ok THEN [run |-> FALSE, cap |-> NoF32]               \* line 31-34
        ELSE IF m.h THEN [run |-> FALSE, cap |-> NoF32]            \* line 37-40
        ELSE IF m.v = <<>> THEN [run |-> FALSE, cap |-> NoF32]     \* line 43-46
        ELSE IF m.v[1] \notin F32Strings
             THEN [run |-> FALSE, cap |-> NoF32]                   \* line 47-50
        ELSE [run |-> TRUE, cap |-> ParseF32(m.v[1])]              \* line 51-56

SessStopped ==
    /\ ctx_state = "Unconnected"
    /\ pb_state = "None"
    /\ rec_state = "None"
    /\ capture_q = <<>>
    /\ next_id = 1
    /\ peeked = NoPeek
    /\ played = <<>>
    /\ iter_ops = <<>>
    /\ chunk_log = <<>>
    /\ peeked_ids = <<>>
    /\ written_ids = <<>>
    /\ discarded_ids = <<>>
    /\ iter_failed = FALSE
    /\ acted_after_fail = FALSE
    /\ pump_entry = <<>>
    /\ partial_seen = {}

MainInit ==
    /\ pc = "main"
    /\ CapIdle
    /\ StepIdle
    /\ RingIdle
    /\ SessStopped

mainFrame == <<ctx_state, pb_state, rec_state, capture_q, next_id, peeked,
               played, iter_ops, chunk_log, peeked_ids, written_ids,
               discarded_ids,
               iter_failed, acted_after_fail, pump_entry, partial_seen,
               ringVars>>

\* line 17-56
MainStart ==
    /\ pc = "main"
    /\ \E args \in CommandLines :
        LET o == MainOutcome(args)
        IN  /\ pc' = IF o.run THEN "run" ELSE "exited"
            /\ volume_cap' = o.cap
    /\ UNCHANGED <<volume_buffer, stepVars, mainFrame>>

\* line 171-193: the chunks of the pipeline main has started
MainChunk ==
    /\ pc = "run"
    /\ gsteps < MaxGainSteps
    /\ \E c \in GainChunks : GainApply(c)
    /\ gsteps' = gsteps + 1
    /\ UNCHANGED <<pc, volume_cap, warm, mainFrame>>

MainNext == MainStart \/ MainChunk

SpecMain == MainInit /\ [][MainNext]_vars

\* ------------------------------------------------------------------------
\* SpecRecover: the gain step over a history of loud chunks followed by a
\* run of chunks whose peaks are at most volume_cap
\* ------------------------------------------------------------------------
RecoverCaps == {ParseF32(a) : a \in {"0.06", "0.5"}}

\* chunks with a peak above every cap of RecoverCaps
LoudChunks == {<<S(B_0_7)>>, <<S(B_2)>>, <<S(B_3e38)>>}

LoudLens == {1, BUFFER_SIZE - 1, BUFFER_SIZE + 2}

\* chunks with a peak of at most every cap of RecoverCaps, taken in turn
QuietChunks == {<<S(B_0)>>, <<S(B_0_05), S(B_0)>>, <<S(B_0_06)>>}

QuietAfter(c) ==
    CASE c = <<S(B_0)>> -> <<S(B_0_05), S(B_0)>>
      [] c = <<S(B_0_05), S(B_0)>> -> <<S(B_0_06)>>
      [] OTHER -> <<S(B_0)>>

RecoverInit ==
    /\ volume_cap \in RecoverCaps
    /\ volume_buffer = RingNew(BUFFER_SIZE)
    /\ chunk = <<>>
    /\ chunk_max = NoF32
    /\ weighted_average = NoF32
    /\ volume_multiplier = NoF32
    /\ out_chunk = <<>>
    /\ gsteps = 0
    /\ warm \in {[c |-> c, n |-> n] : c \in LoudChunks, n \in LoudLens}
    /\ RingIdle
    /\ SessIdle

\* the next quiet chunk; gsteps counts the quiet chunks since the last loud
RecoverQuiet ==
    /\ warm.n = 0
    /\ gsteps <= BUFFER_SIZE
    /\ \E c \in QuietChunks :
        /\ gsteps = 0 \/ c = QuietAfter(chunk)
        /\ GainApply(c)
    /\ gsteps' = gsteps + 1
    /\ UNCHANGED <<volume_cap, warm, ringVars, sessVars>>

RecoverNext == GainWarm \/ RecoverQuiet

SpecRecover == RecoverInit /\ [][RecoverNext]_vars

\* ------------------------------------------------------------------------
\* SpecRing: new(size) for a size in 1..MaxSize, then appends of fresh
\* elements (numbered in the order they are appended, as in the test)
\* ------------------------------------------------------------------------
FreshSlice(from, n) == [i \in 1..n |-> from + i]

RingInit ==
    /\ ring \in {RingNew(n) : n \in 1..MaxSize}
    /\ ring_panicked = FALSE
    /\ appended = <<>>
    /\ nappends = 0
    /\ last_len = 0
    /\ CapIdle
    /\ StepIdle
    /\ SessIdle

RingDoAppend ==
    /\ ~ring_panicked
    /\ nappends < MaxAppends
    /\ \E n \in 0..MaxSlice :
        LET elements == FreshSlice(Len(appended), n)
        IN  /\ appended' = appended \o elements
            /\ IF AppendPanics(ring, elements)
               THEN ring_panicked' = TRUE /\ ring' = ring
               ELSE /\ ring' = RingAppend(ring, elements)
                    /\ ring_panicked' = RingIterPanics(RingAppend(ring, elements))
            /\ last_len' = n
    /\ nappends' = nappends + 1
    /\ UNCHANGED <<capVars, stepVars, sessVars>>

RingNext == RingDoAppend

SpecRing == RingInit /\ [][RingNext]_vars

\* ------------------------------------------------------------------------
\* C2: for a RingBuffer of capacity N > 0 and any sequence of append calls
\* (slices of any length, 0 and lengths above N included), iter() yields
\* exactly the last min(N, total appended) elements of the concatenation of
\* all appended slices, oldest first.
\* ------------------------------------------------------------------------
LastOf(s, n) == Slice(s, Len(s) - Min(n, Len(s)), Len(s))

C2_IterIsLastN ==
    ~ring_panicked /\ RingIter(ring) = LastOf(appended, ring.size)

\* a slice longer than the capacity was appended to a ring that had wrapped
C2_Witness ==
    /\ ~ring_panicked
    /\ ring.size >= 2
    /\ last_len > ring.size
    /\ Len(appended) - last_len > ring.size
    /\ (Len(appended) - last_len) % ring.size # 0
    /\ RingIter(ring) = LastOf(appended, ring.size)

\* ------------------------------------------------------------------------
\* C20: for a RingBuffer of capacity N > 0, after any sequence of append
\* calls: the backing vector's length never exceeds N, index < N, index
\* equals the vector's length while the vector holds fewer than N elements,
\* and every slice range used by append and iter is within bounds (no append
\* or iter call panics).
\* ------------------------------------------------------------------------
C20_RingWithinBounds ==
    /\ ~ring_panicked
    /\ Len(ring.buffer) <= ring.size
    /\ ring.index < ring.size
    /\ Len(ring.buffer) < ring.size => ring.index = Len(ring.buffer)
    /\ ~RingIterPanics(ring)
    /\ \A n \in 0..(MaxSlice + 1) : ~AppendPanics(ring, FreshSlice(0, n))

\* an append that found the vector partly filled, filled it and wrapped
\* around to its head
C20_Witness ==
    /\ ~ring_panicked
    /\ last_len <= ring.size
    /\ 0 < Len(appended) - last_len
    /\ Len(appended) - last_len < ring.size
    /\ Len(appended) > ring.size
    /\ Len(ring.buffer) = ring.size
    /\ ring.index = Len(appended) - ring.size

\* ------------------------------------------------------------------------
\* run (src/src/main.rs, lines 59-215) against the audio server.
\* The server acts while the event loop is advanced (mainloop.iterate): it
\* moves the connection and the streams through their states and delivers
\* capture data. run is single-threaded, so nothing changes between two
\* advances.
\* ------------------------------------------------------------------------
IterateResults == {"Success", "Quit", "Err"}

Dead == {"Failed", "Terminated"}

\* the states a connection or a stream may be in after an advance; Connecting
\* and Creating stand for every state the wildcard arms (lines 99, 150) match
StateStep(st) ==
    CASE st \in {"Connecting", "Creating"} -> {st, "Ready", "Failed", "Terminated"}
      [] st = "Ready" -> {"Ready", "Failed", "Terminated"}
      [] OTHER -> {st}

\* the results of peek, write and discard: an operation on a stream that is
\* not Ready fails; on a Ready stream it may still fail
OpResults(st) == IF st = "Ready" THEN {"Ok", "Err"} ELSE {"Err"}

\* capture data: byte buffers of one frame, of 65 samples (two chunks, the
\* second short) and of 6 bytes (not a whole number of samples)
Buf65 ==
    [j \in 1..(4 * (CHUNK_LEN + 1)) |->
        IF j <= 4 * CHUNK_LEN THEN B_0_05[((j - 1) % 4) + 1]
        ELSE B_0_7[((j - 1) % 4) + 1]]

DataBuffers == {B_0_7 \o B_m0_9, B_0_05 \o B_0, Buf65, B_0_7 \o <<0, 0>>}

\* the units that may arrive during one advance (at most one)
Arrivals(st, id) ==
    IF st = "Ready" /\ id <= MaxUnits
    THEN {<<>>}
         \cup {<<[kind |-> "Hole", id |-> id, data |-> <<>>]>>}
         \cup {<<[kind |-> "Data", id |-> id, data |-> d]>> : d \in DataBuffers}
    ELSE {<<>>}

\* mutant: the bytes after the last whole sample are dropped (chunks_exact)
DecodePanics_Truncates(data) == FALSE

\* line 167-170: data.chunks(size_of::<f32>()).map(from_le_bytes(try_from))
\* try_from fails, and unwrap panics, on a last chunk of fewer than 4 bytes
DecodePanics(data) == Len(data) % 4 # 0

Decode(data) ==
    [k \in 1..(Len(data) \div 4) |->
        F32FromLeBytes(Slice(data, 4 * (k - 1), 4 * k))]

\* line 199-203: audio_data.iter().map(|f| f.to_le_bytes()).flatten()
Encode(samples) ==
    [j \in 1..(4 * Len(samples)) |->
        F32ToLeBytes(samples[((j - 1) \div 4) + 1])[((j - 1) % 4) + 1]]

\* mutant: the samples after the last whole chunk are not processed
NumChunks_Floor(samples) == Len(samples) \div CHUNK_LEN

\* line 172: float_data.chunks(64): the k-th chunk, the last one short
NumChunks(samples) == (Len(samples) + CHUNK_LEN - 1) \div CHUNK_LEN

NthChunk(samples, k) ==
    Slice(samples, (k - 1) * CHUNK_LEN, Min(k * CHUNK_LEN, Len(samples)))

\* ghost: what the closure saw and computed for one chunk
LogEntry(c, r) ==
    [chunk |-> c,
     volume_buffer |-> r.volume_buffer,
     chunk_max |-> r.chunk_max,
     weighted_average |-> r.weighted_average,
     volume_multiplier |-> r.volume_multiplier]

\* line 171-195: the chunks through the gain step in order, outputs flattened
RECURSIVE ProcessChunks(_, _, _, _, _)
ProcessChunks(rb, cap, samples, k, out) ==
    IF k > NumChunks(samples)
    THEN [volume_buffer |-> rb, audio_data |-> out, log |-> <<>>]
    ELSE LET c == NthChunk(samples, k)
             r == GainStep(rb, cap, c)
             rest == ProcessChunks(r.volume_buffer, cap, samples, k + 1,
                                   out \o r.out)
         IN  [rest EXCEPT !.log = <<LogEntry(c, r)>> \o rest.log]

ProcessData(rb, cap, data) == ProcessChunks(rb, cap, Decode(data), 1, <<>>)

\* line 59: run(volume_cap), up to context.connect (lines 60-79)
SessCaps == {ParseF32("0.06")}

Init ==
    /\ pc = "setup"
    /\ volume_cap \in SessCaps
    /\ volume_buffer = RingNew(BUFFER_SIZE)
    /\ ctx_state = "Unconnected"
    /\ pb_state = "None"
    /\ rec_state = "None"
    /\ capture_q = <<>>
    /\ next_id = 1
    /\ peeked = NoPeek
    /\ played = <<>>
    /\ iter_ops = <<>>
    /\ chunk_log = <<>>
    /\ peeked_ids = <<>>
    /\ written_ids = <<>>
    /\ discarded_ids = <<>>
    /\ iter_failed = FALSE
    /\ acted_after_fail = FALSE
    /\ pump_entry = <<>>
    /\ partial_seen = {}
    /\ RingIdle
    /\ StepIdle

\* line 60-79: mainloop, context, connect; each expect panics on an error
Setup ==
    /\ pc = "setup"
    /\ \E ok \in BOOLEAN :
        IF ok THEN pc' = "ctx_poll" /\ ctx_state' = "Connecting"
        ELSE pc' = "panicked" /\ ctx_state' = ctx_state
    /\ UNCHANGED <<pb_state, rec_state, capture_q, next_id,
                   peeked, played, iter_ops, chunk_log, peeked_ids, written_ids,
                   discarded_ids, iter_failed, acted_after_fail, pump_entry,
                   partial_seen, ringVars, capVars, stepVars>>

\* the connection's state is read at lines 93-100 only: its changes after
\* the handshake are not followed
CtxStep == IF pc = "ctx_poll" THEN StateStep(ctx_state) ELSE {ctx_state}

\* line 81-87: poll_mainloop. On Err or Quit the closure prints and returns:
\* the return leaves the closure, and run goes on at the statement after
\* the call, as it does on Success.
PollMainloop(next) ==
    /\ \E res \in IterateResults :
        iter_failed' = (iter_failed \/ res # "Success")
    /\ \E c \in CtxStep, p \in StateStep(pb_state),
          r \in StateStep(rec_state) :
        /\ ctx_state' = c
        /\ pb_state' = p
        /\ rec_state' = r
        /\ \E arr \in Arrivals(r, next_id) :
            /\ capture_q' = capture_q \o arr
            /\ next_id' = next_id + Len(arr)
    /\ pc' = next
    /\ UNCHANGED <<peeked, played, iter_ops, chunk_log, peeked_ids, written_ids,
                   discarded_ids, acted_after_fail, pump_entry, partial_seen,
                   ringVars, capVars, stepVars>>

\* ghost: calls made after an advance has failed
AfterFail == IF iter_failed THEN TRUE ELSE acted_after_fail

\* line 91
CtxPoll == pc = "ctx_poll" /\ PollMainloop("ctx_check")

\* mutant: the handshake is left on any state that is no longer connecting
WaitContext_BreakOnDead(st) ==
    IF st = "Ready" \/ st \in Dead THEN "streams_new" ELSE "ctx_poll"

\* line 93-100: match context.get_state()
WaitContext(st) ==
    CASE st = "Ready" -> "streams_new"
      [] st \in Dead -> "returned"
      [] OTHER -> "ctx_poll"

\* line 93-100
CtxCheck ==
    /\ pc = "ctx_check"
    /\ pc' = WaitContext(ctx_state)
    /\ acted_after_fail' = AfterFail
    /\ UNCHANGED <<ctx_state, pb_state, rec_state, capture_q,
                   next_id, peeked, played, iter_ops, chunk_log, peeked_ids,
                   written_ids, discarded_ids, iter_failed, pump_entry,
                   partial_seen, ringVars, capVars, stepVars>>

\* line 103-137: both streams created and connected; each expect panics
StreamsNew ==
    /\ pc = "streams_new"
    /\ \E ok \in BOOLEAN :
        IF ok
        THEN pc' = "ws_poll" /\ pb_state' = "Creating" /\ rec_state' = "Creating"
        ELSE pc' = "panicked" /\ pb_state' = pb_state /\ rec_state' = rec_state
    /\ UNCHANGED <<ctx_state, capture_q, next_id, peeked, played,
                   iter_ops, chunk_log, peeked_ids, written_ids, discarded_ids,
                   iter_failed, acted_after_fail, pump_entry, partial_seen,
                   ringVars, capVars, stepVars>>

\* line 141
WsPoll == pc = "ws_poll" /\ PollMainloop("ws_check")

\* mutant: the wildcard arm of line 150 falls through instead of continuing
\* the outer loop
WaitStreams_NoContinue(pb, rec) ==
    IF pb \in Dead \/ rec \in Dead THEN "return" ELSE "break"

\* line 143-154: the states of [playback, recording] matched in that order;
\* the first arm that leaves the for loop decides the pass
WaitStreams(pb, rec) ==
    IF pb = "Ready"
    THEN IF rec = "Ready" THEN "break"
         ELSE IF rec \in Dead THEN "return"
         ELSE "continue"
    ELSE IF pb \in Dead THEN "return"
    ELSE "continue"

\* line 143-155
WsCheck ==
    /\ pc = "ws_check"
    /\ LET o == WaitStreams(pb_state, rec_state)
       IN  /\ pc' = CASE o = "break" -> "pump_poll"
                      [] o = "return" -> "returned"
                      [] OTHER -> "ws_poll"
           /\ pump_entry' = IF o = "break" THEN <<pb_state, rec_state>>
                            ELSE pump_entry
    /\ partial_seen' =
        partial_seen
        \cup (IF pb_state = "Ready" /\ rec_state = "Creating"
              THEN {"playback_first"} ELSE {})
        \cup (IF pb_state = "Creating" /\ rec_state = "Ready"
              THEN {"capture_first"} ELSE {})
    /\ acted_after_fail' = AfterFail
    /\ UNCHANGED <<ctx_state, pb_state, rec_state, capture_q,
                   next_id, peeked, played, iter_ops, chunk_log, peeked_ids,
                   written_ids, discarded_ids, iter_failed, ringVars, capVars,
                   stepVars>>

\* line 160
PumpPoll == pc = "pump_poll" /\ PollMainloop("pump_peek")

pumpFrame == <<ctx_state, pb_state, rec_state, next_id, iter_failed,
               pump_entry, partial_seen, ringVars, stepVars, volume_cap>>

\* what a successful peek returns: the oldest unit not yet dropped, or Empty
Peek(q) == IF q = <<>> THEN [kind |-> "Empty", id |-> 0, data |-> <<>>] ELSE Head(q)

\* ghost: the entry of discarded_ids for a dropped unit
Dropped(u) == [id |-> u.id, kind |-> u.kind, len |-> Len(u.data)]

\* mutant: a hole is handled by the Data arm
MatchArm_HoleAsData(res) == IF res.kind = "Hole" THEN "Data" ELSE res.kind

\* mutant: data is handled by the Hole arm
MatchArm_DataAsHole(res) == IF res.kind = "Data" THEN "Hole" ELSE res.kind

\* line 162-165: the arm of the match that takes the peek result
MatchArm(res) == res.kind

\* mutant: the Result of write or discard is dropped instead of unwrapped
Unwrap_Ignored(res, next) == next

\* line 164, 208, 210: Result::unwrap: panics on Err, goes on on Ok
Unwrap(res, next) == IF res = "Ok" THEN next ELSE "panicked"

\* line 162: peek fails and unwrap panics
PumpPeekErr ==
    /\ pc = "pump_peek"
    /\ "Err" \in OpResults(rec_state)
    /\ peeked' = [kind |-> "Err", id |-> 0, data |-> <<>>]
    /\ iter_ops' = <<"peek:Err">>
    /\ pc' = "panicked"
    /\ acted_after_fail' = AfterFail
    /\ UNCHANGED <<capture_q, played, peeked_ids, written_ids, discarded_ids,
                   volume_buffer, chunk_log, pumpFrame>>

\* line 163: PeekResult::Empty => {}
PumpEmpty ==
    /\ pc = "pump_peek"
    /\ "Ok" \in OpResults(rec_state)
    /\ MatchArm(Peek(capture_q)) = "Empty"
    /\ peeked' = Peek(capture_q)
    /\ iter_ops' = <<"peek:Empty">>
    /\ pc' = "pump_poll"
    /\ acted_after_fail' = AfterFail
    /\ UNCHANGED <<capture_q, played, peeked_ids, written_ids, discarded_ids,
                   volume_buffer, chunk_log, pumpFrame>>

\* line 164: PeekResult::Hole(_) => recording_stream.discard().unwrap()
PumpHole ==
    /\ pc = "pump_peek"
    /\ "Ok" \in OpResults(rec_state)
    /\ MatchArm(Peek(capture_q)) = "Hole"
    /\ peeked' = Peek(capture_q)
    /\ \E dres \in OpResults(rec_state) :
        /\ iter_ops' = <<"peek:Hole", "discard:" \o dres>>
        /\ IF dres = "Ok"
           THEN /\ capture_q' = Tail(capture_q)
                /\ discarded_ids' =
                       Append(discarded_ids, Dropped(Peek(capture_q)))
           ELSE UNCHANGED <<capture_q, discarded_ids>>
        /\ pc' = Unwrap(dres, "pump_poll")
    /\ acted_after_fail' = AfterFail
    /\ UNCHANGED <<played, peeked_ids, written_ids, volume_buffer, chunk_log,
                   pumpFrame>>

\* line 165-170: PeekResult::Data(data) whose decoding panics
PumpDataMalformed ==
    /\ pc = "pump_peek"
    /\ "Ok" \in OpResults(rec_state)
    /\ MatchArm(Peek(capture_q)) = "Data"
    /\ DecodePanics(Peek(capture_q).data)
    /\ peeked' = Peek(capture_q)
    /\ peeked_ids' = Append(peeked_ids, Peek(capture_q).id)
    /\ iter_ops' = <<"peek:Data">>
    /\ pc' = "panicked"
    /\ acted_after_fail' = AfterFail
    /\ UNCHANGED <<capture_q, played, written_ids, discarded_ids,
                   volume_buffer, chunk_log, pumpFrame>>

\* line 165-212: PeekResult::Data(data): decode, gain, encode, write, discard
PumpData ==
    /\ pc = "pump_peek"
    /\ "Ok" \in OpResults(rec_state)
    /\ MatchArm(Peek(capture_q)) = "Data"
    /\ ~DecodePanics(Peek(capture_q).data)
    /\ peeked' = Peek(capture_q)
    /\ peeked_ids' = Append(peeked_ids, Peek(capture_q).id)
    /\ acted_after_fail' = AfterFail
    /\ \E r \in {ProcessData(volume_buffer, volume_cap, Peek(capture_q).data)},
          wres \in OpResults(pb_state), dres \in OpResults(rec_state) :
        /\ volume_buffer' = r.volume_buffer
        /\ chunk_log' = r.log
        /\ IF wres = "Ok"
           THEN /\ played' = Append(played, Encode(r.audio_data))
                /\ written_ids' = Append(written_ids, Peek(capture_q).id)
           ELSE UNCHANGED <<played, written_ids>>
        /\ IF Unwrap(wres, "discard") = "panicked"
           THEN \* line 208: write fails, unwrap panics
                /\ iter_ops' = <<"peek:Data", "write:" \o wres>>
                /\ pc' = "panicked"
                /\ UNCHANGED <<capture_q, discarded_ids>>
           ELSE \* line 210: discard, whose failure panics
                /\ iter_ops' =
                       <<"peek:Data", "write:" \o wres, "discard:" \o dres>>
                /\ IF dres = "Ok"
                   THEN /\ capture_q' = Tail(capture_q)
                        /\ discarded_ids' =
                               Append(discarded_ids, Dropped(Peek(capture_q)))
                   ELSE UNCHANGED <<capture_q, discarded_ids>>
                /\ pc' = Unwrap(dres, "pump_poll")
    /\ UNCHANGED pumpFrame

Next ==
    \/ Setup
    \/ CtxPoll
    \/ CtxCheck
    \/ StreamsNew
    \/ WsPoll
    \/ WsCheck
    \/ PumpPoll
    \/ PumpPeekErr
    \/ PumpEmpty
    \/ PumpHole
    \/ PumpDataMalformed
    \/ PumpData

Spec == Init /\ [][Next]_vars

\* ------------------------------------------------------------------------
\* Claims about the gain step (SpecGain)
\* ------------------------------------------------------------------------
F32One == F32(0, 127, 0)

\* a gain step has run; chunk, chunk_max, ... hold its values
Stepped == chunk # <<>>

\* |a| <= cap, false of a NaN
MagnitudeWithin(a, cap) == ~IsNaN(a) /\ F32Le(F32Abs(a), cap)

\* C1: for any volume_cap > 0, any history of chunks and any input chunk,
\* every sample of the output chunk of the gain step has magnitude at most
\* volume_cap.
C1_OutputWithinCap ==
    Stepped =>
        \A k \in 1..Len(out_chunk) : MagnitudeWithin(out_chunk[k], volume_cap)

\* C3: for any chunk and any window state reachable by the pump
\* loop, with volume_cap > 0, the gain satisfies 0 < gain <= 1.
C3_GainPositiveAtMostOne ==
    Stepped =>
        /\ ~IsNaN(volume_multiplier)
        /\ F32Lt(F32Zero(0), volume_multiplier)
        /\ F32Le(volume_multiplier, F32One)

WindowValues == RingIter(volume_buffer)

AllWithinCap ==
    /\ \A k \in 1..Len(WindowValues) : F32Le(WindowValues[k], volume_cap)
    /\ F32Le(chunk_max, volume_cap)

C5_GainTimesMaxIsCap ==
    (Stepped /\ F32Lt(volume_cap, F32Max(chunk_max, weighted_average))) =>
        F32Mul(volume_multiplier, F32Max(chunk_max, weighted_average))
            = volume_cap

\* the f32 sum of the weights i / BUFFER_SIZE over a full window
WeightSum ==
    SumWeighted([k \in 1..BUFFER_SIZE |-> F32One], 1, BUFFER_SIZE, F32Zero(0))

\* the window is full and all its entries are equal
UniformFullWindow ==
    /\ Len(volume_buffer.buffer) = BUFFER_SIZE
    /\ \A k \in 1..BUFFER_SIZE : WindowValues[k] = WindowValues[1]

\* C18: the normalizer BUFFER_SIZE * 0.5 equals the sum of the weights
\* i / BUFFER_SIZE over a full window, so that a full window whose entries
\* all equal L has weighted_average = L.
C18_NormalizerIsWeightSum ==
    (Stepped /\ UniformFullWindow) =>
        /\ Normalizer = WeightSum
        /\ weighted_average = WindowValues[1]

PumpPcs == {"pump_poll", "pump_peek"}

NotYetReady == {"None", "Creating"}

\* run is in the pump loop, or has panicked in it
InPump == pc \in PumpPcs \/ peeked # NoPeek

OpsOf(k) ==
    {j \in 1..Len(iter_ops) : iter_ops[j] \in {k \o ":Ok", k \o ":Err"}}

\* a loop body ran in this step and its peek returned Hole
HoleStep == pc = "pump_peek" /\ pc' # "pump_peek" /\ peeked'.kind = "Hole"

\* C7: in a pump iteration whose peek returns Hole, discard is called
\* exactly once, nothing is written to the playback stream, the gain window
\* is unchanged, and, the discard having succeeded, the hole is dropped and
\* the loop goes on with the next iteration.
C7_HoleIteration ==
    [][HoleStep =>
        /\ Cardinality(OpsOf("discard")') = 1
        /\ OpsOf("write")' = {}
        /\ played' = played
        /\ written_ids' = written_ids
        /\ volume_buffer' = volume_buffer
        /\ iter_ops'[Len(iter_ops')] = "discard:Ok" =>
            /\ capture_q' = Tail(capture_q)
            /\ pc' = "pump_poll"]_vars

\* a hole was dropped after a Data unit had filled part of the window, and
\* the loop went on
C7_Witness ==
    /\ pc = "pump_poll"
    /\ peeked.kind = "Hole"
    /\ iter_ops = <<"peek:Hole", "discard:Ok">>
    /\ written_ids # <<>>
    /\ Len(volume_buffer.buffer) > 0

IsPrefix(s, t) == Len(s) <= Len(t) /\ s = SubSeq(t, 1, Len(s))

Increasing(s) == \A j \in 1..(Len(s) - 1) : s[j] < s[j + 1]

IsData(d) == d.kind = "Data"

DroppedData ==
    LET dd == SelectSeq(discarded_ids, IsData)
    IN  [j \in 1..Len(dd) |-> dd[j].id]

\* the writes follow the peeks and the discards follow the writes, unit by
\* unit; an iteration that completes leaves nothing behind
FifoOrder ==
    /\ Increasing(peeked_ids)
    /\ IsPrefix(written_ids, peeked_ids)
    /\ IsPrefix(DroppedData, written_ids)
    /\ Len(played) = Len(written_ids)
    /\ Len(peeked_ids) <= Len(DroppedData) + 1
    /\ pc # "panicked" => peeked_ids = written_ids /\ written_ids = DroppedData

\* a loop body ran in this step and its peek returned Empty
EmptyStep == pc = "pump_peek" /\ pc' # "pump_peek" /\ peeked'.kind = "Empty"

\* C8: over any run of the pump loop, the Data units are peeked in arrival
\* order, each peeked Data unit of an iteration that completes is written
\* exactly once and is discarded only after its write, the writes are in
\* the order of the peeks, and an Empty peek causes neither a write nor a
\* discard.
C8_FifoWriteThenDiscard ==
    /\ []FifoOrder
    /\ [][EmptyStep =>
            /\ played' = played
            /\ written_ids' = written_ids
            /\ discarded_ids' = discarded_ids
            /\ capture_q' = capture_q
            /\ iter_ops' = <<"peek:Empty">>]_vars

\* two Data units were written and dropped in order, then a peek was Empty
C8_Witness ==
    /\ pc = "pump_poll"
    /\ Len(written_ids) >= 2
    /\ DroppedData = written_ids
    /\ peeked.kind = "Empty"

\* C9: whenever mainloop.iterate returns Quit or Err, in the connection
\* handshake, the stream handshake or the pump loop, the session is
\* terminated: no state check, peek, write or discard is performed after
\* that advance.
C9_FailedAdvanceTerminates == ~acted_after_fail

\* a pass of the stream handshake: the states are matched in this step
HandshakePass == pc = "ws_check" /\ pc' # "ws_check"

\* C10: during the stream handshake, in any polling pass in which the
\* playback stream or the capture stream is Failed or Terminated, the
\* session aborts in that same pass, whatever state the other stream is in.
C10_DeadStreamAbortsPass ==
    [][(HandshakePass /\ (pb_state \in Dead \/ rec_state \in Dead))
          => pc' = "returned"]_vars

\* a loop body ran in this step
PumpBodyStep == pc = "pump_peek" /\ pc' # "pump_peek"

\* C11: during the pump loop, once the capture stream or the playback
\* stream is Failed or Terminated, the process exits: no loop body that runs
\* with a failed or terminated stream goes back to the top of the loop.
C11_DeadStreamEndsPump ==
    [][(PumpBodyStep /\ (pb_state \in Dead \/ rec_state \in Dead))
          => pc' \notin PumpPcs]_vars

\* the calls of the last loop body, and the last of them
Ops == {iter_ops[j] : j \in 1..Len(iter_ops)}

LastOp == iter_ops[Len(iter_ops)]

\* C12: if the write for a Data unit fails, the session aborts: the unit is
\* not discarded and the write is not retried; if a discard (after a write
\* or for a Hole) fails, the session aborts; nothing is peeked or written
\* after the abort.
C12_WriteOrDiscardFailureAborts ==
    [][/\ (PumpBodyStep /\ "write:Err" \in Ops') =>
            /\ Cardinality(OpsOf("write")') = 1
            /\ OpsOf("discard")' = {}
            /\ pc' = "panicked"
            /\ capture_q' = capture_q
            /\ discarded_ids' = discarded_ids
            /\ played' = played
       /\ (PumpBodyStep /\ "discard:Err" \in Ops') =>
            /\ LastOp' = "discard:Err"
            /\ pc' = "panicked"
            /\ capture_q' = capture_q
       /\ pc = "panicked" => UNCHANGED vars]_vars

\* a write has failed with the unit still at the head of the capture queue
C12_Witness ==
    /\ pc = "panicked"
    /\ iter_ops = <<"peek:Data", "write:Err">>
    /\ capture_q # <<>>
    /\ Head(capture_q) = peeked
    /\ written_ids # <<>>

\* a loop body ran in this step and its peek returned a Data buffer that is
\* not a whole number of 4-byte samples
MalformedStep ==
    PumpBodyStep /\ peeked'.kind = "Data" /\ Len(peeked'.data) % 4 # 0

\* C13: if peek returns a Data buffer whose length is not a multiple of 4,
\* the session aborts in that iteration: nothing is written to the playback
\* stream, the unit is not discarded, and the gain window is not modified.
C13_MalformedBufferAborts ==
    [][MalformedStep =>
        /\ pc' = "panicked"
        /\ iter_ops' = <<"peek:Data">>
        /\ played' = played
        /\ written_ids' = written_ids
        /\ capture_q' = capture_q
        /\ discarded_ids' = discarded_ids
        /\ volume_buffer' = volume_buffer]_vars

\* a malformed buffer has aborted the session after an earlier buffer had
\* been played and had left its peaks in the window
C13_Witness ==
    /\ pc = "panicked"
    /\ peeked.kind = "Data"
    /\ Len(peeked.data) % 4 # 0
    /\ Head(capture_q) = peeked
    /\ Len(played) = 1
    /\ Len(volume_buffer.buffer) > 0

\* ------------------------------------------------------------------------
\* Claims about main (SpecMain)
\* ------------------------------------------------------------------------
\* C14: for every command line for which main calls run, the volume cap
\* handed to the gain computation is > 0, so the denominator
\* max(weighted_average, volume_cap, chunk_max) is strictly positive for
\* every chunk, all-zero chunks included, and the gain is never the
\* quotient of a division by zero.
C14_CapPositive ==
    pc = "run" =>
        /\ ~IsNaN(volume_cap)
        /\ F32Lt(F32Zero(0), volume_cap)
        /\ Stepped =>
            LET den == Denominator(volume_cap, weighted_average, chunk_max)
            IN  ~IsNaN(den) /\ F32Lt(F32Zero(0), den)

\* ------------------------------------------------------------------------
\* Claims about the buffers of the pump loop (Spec)
\* ------------------------------------------------------------------------
RECURSIVE TotalLen(_)
TotalLen(bufs) ==
    IF bufs = <<>> THEN 0 ELSE Len(Head(bufs)) + TotalLen(Tail(bufs))

RECURSIVE TotalDropped(_)
TotalDropped(ds) ==
    IF ds = <<>> THEN 0
    ELSE (IF Head(ds).kind = "Data" THEN Head(ds).len ELSE 0)
         + TotalDropped(Tail(ds))

LastPlayed == played[Len(played)]

\* the chunk of the last buffer that holds its j-th sample
ChunkOf(j) == chunk_log[((j - 1) \div 64) + 1]

\* the j-th sample written is the j-th sample peeked, times its chunk's gain
SameSamplesInOrder ==
    LET din == peeked.data
        dout == LastPlayed
    IN  /\ Len(dout) = Len(din)
        /\ \A j \in 1..(Len(din) \div 4) :
              F32FromLeBytes(SubSeq(dout, 4 * j - 3, 4 * j))
                = F32Mul(F32FromLeBytes(SubSeq(din, 4 * j - 3, 4 * j)),
                         ChunkOf(j).volume_multiplier)

\* C15: for every peeked Data unit whose length is a multiple of 4, the
\* buffer written to the playback stream has the same number of bytes: the
\* same samples in the same order, each times its chunk's gain; and at every
\* boundary between pump iterations the bytes written to playback are as
\* many as the bytes of the Data units discarded from capture.
C15_BytesWrittenEqualBytesRead ==
    /\ "write:Ok" \in Ops => (peeked.kind = "Data" /\ SameSamplesInOrder)
    /\ pc \in PumpPcs => TotalLen(played) = TotalDropped(discarded_ids)

\* the 65-sample buffer has been written and dropped after a one-frame
\* buffer, and the loop is at an iteration boundary
C15_Witness ==
    /\ pc = "pump_poll"
    /\ Len(played) = 2
    /\ Len(LastPlayed) = 4 * 65
    /\ iter_ops = <<"peek:Data", "write:Ok", "discard:Ok">>
    /\ TotalLen(played) = 4 * 65 + 8

\* a loop body ran in this step on a Data buffer of whole samples
DataStep ==
    PumpBodyStep /\ peeked'.kind = "Data" /\ Len(peeked'.data) % 4 = 0

\* the last loop body that ran took a Data buffer of whole samples through
\* the chunks: chunk_log is the log of the buffer in peeked
LastBodyData ==
    /\ iter_ops # <<>>
    /\ iter_ops[1] = "peek:Data"
    /\ Len(peeked.data) % 4 = 0

\* the samples of the buffer peeked, and the chunks they fall in
SamplesIn ==
    [j \in 1..(Len(peeked.data) \div 4) |->
        F32FromLeBytes(SubSeq(peeked.data, 4 * j - 3, 4 * j))]

ChunksCoverSamples ==
    LET n == Len(SamplesIn)
        m == Len(chunk_log)
    IN  /\ m = (n + 63) \div 64
        /\ \A k \in 1..m :
              Len(chunk_log[k].chunk) = IF k < m THEN 64 ELSE n - 64 * (m - 1)
        /\ \A j \in 1..n : ChunkOf(j).chunk[((j - 1) % 64) + 1] = SamplesIn[j]

\* the peaks of the chunks, in order
PeaksLogged == [k \in 1..Len(chunk_log) |-> chunk_log[k].chunk_max]

\* each chunk's gain is computed from the window that already holds the
\* chunk's own peak as its newest value
GainsSeeOwnPeak ==
    \A k \in 1..Len(chunk_log) :
        LET e == chunk_log[k]
            w == RingIter(e.volume_buffer)
        IN  /\ w[Len(w)] = e.chunk_max
            /\ e.weighted_average = WeightedAverage(e.volume_buffer)
            /\ e.volume_multiplier =
                  F32Div(volume_cap,
                         F32Max(F32Max(e.weighted_average, volume_cap),
                                e.chunk_max))

\* C16: a Data buffer of n samples is processed as ceil(n/64) chunks in
\* order, the last one short when n is not a multiple of 64, nothing carried
\* over from or into another buffer; each chunk appends exactly one peak to
\* the window before its gain is computed, so the window receives exactly
\* ceil(n/64) values a buffer and each gain accounts for its chunk's peak.
C16_ChunkingAndAppends ==
    /\ [](/\ LastBodyData => ChunksCoverSamples
          /\ GainsSeeOwnPeak
          /\ Len(chunk_log) > 0 =>
                volume_buffer = chunk_log[Len(chunk_log)].volume_buffer)
    /\ [][DataStep =>
            RingIter(volume_buffer') =
                LastOf(RingIter(volume_buffer) \o PeaksLogged', BUFFER_SIZE)]_vars

\* the 65-sample buffer went through as a chunk of 64 and a chunk of 1,
\* after an earlier buffer had left one peak in the window
C16_Witness ==
    /\ Len(chunk_log) = 2
    /\ Len(chunk_log[1].chunk) = 64
    /\ Len(chunk_log[2].chunk) = 1
    /\ Len(volume_buffer.buffer) = 3
    /\ chunk_log[2].volume_multiplier # chunk_log[1].volume_multiplier

\* ------------------------------------------------------------------------
\* Claims about the connection handshake (Spec)
\* ------------------------------------------------------------------------
NoStreamUse ==
    /\ peeked = NoPeek
    /\ played = <<>>
    /\ discarded_ids = <<>>
    /\ iter_ops = <<>>

\* a stream is created in this step
StreamCreated ==
    \/ pb_state = "None" /\ pb_state' # "None"
    \/ rec_state = "None" /\ rec_state' # "None"

\* C17: the playback and capture streams are created and connected only
\* after the connection has been observed Ready; if the connection is
\* observed Failed or Terminated during the connection handshake, the
\* session aborts: no stream is ever created and no peek, write or discard
\* ever occurs.
C17_StreamsOnlyAfterContextReady ==
    /\ []((pb_state = "None" \/ rec_state = "None") =>
            (pb_state = "None" /\ rec_state = "None" /\ NoStreamUse))
    /\ [][/\ StreamCreated => (pc = "streams_new" /\ ctx_state = "Ready")
          /\ (pc = "ctx_check" /\ pc' = "streams_new") => ctx_state = "Ready"
          /\ (pc = "ctx_check" /\ ctx_state \in Dead) => pc' = "returned"
          /\ pc = "returned" => UNCHANGED vars]_vars

\* the connection was observed Terminated and the session has returned
\* without a stream
C17_Witness ==
    /\ pc = "returned"
    /\ ctx_state = "Terminated"
    /\ pb_state = "None"
    /\ rec_state = "None"
    /\ NoStreamUse
====
